---------------------------- MODULE Spec2Model ----------------------------
(***************************************************************************)
(* Model of the query-construction and paging core of news-search-api     *)
(* (src/api.py, src/client.py).                                           *)
(*                                                                         *)
(* Strings are sequences of Unicode code points, byte strings sequences   *)
(* of integers 0..255.  A call that may raise returns a result record     *)
(* [ok, val, err].                                                         *)
(***************************************************************************)
EXTENDS Integers, Sequences, FiniteSets, TLC

(***************************************************************************)
(* Bounds of the model.                                                    *)
(***************************************************************************)
MaxStrLen == 3
MaxDocs == 3
MaxDate == 2
MaxPageSize == 2
MaxApiDocs == 1
MaxTokLen == 5
MaxCount == 2
MaxTotal == 2
MaxIndexes == 2

Ok(v) == [ok |-> TRUE, val |-> v, err |-> ""]
Err(e) == [ok |-> FALSE, val |-> <<>>, err |-> e]

(***************************************************************************)
(* str.encode(): strict UTF-8; a lone surrogate raises UnicodeEncodeError. *)
(***************************************************************************)
UTF8OfCodePoint(cp) ==
    IF cp < 128 THEN <<cp>>
    ELSE IF cp < 2048 THEN <<192 + (cp \div 64), 128 + (cp % 64)>>
    ELSE IF cp < 65536 THEN
        <<224 + (cp \div 4096), 128 + ((cp \div 64) % 64), 128 + (cp % 64)>>
    ELSE <<240 + (cp \div 262144), 128 + ((cp \div 4096) % 64),
           128 + ((cp \div 64) % 64), 128 + (cp % 64)>>

IsSurrogate(cp) == cp >= 55296 /\ cp <= 57343

RECURSIVE UTF8Bytes(_)
UTF8Bytes(s) ==
    IF s = <<>> THEN <<>> ELSE UTF8OfCodePoint(Head(s)) \o UTF8Bytes(Tail(s))

StrEncode(s) ==
    IF \E i \in 1..Len(s) : IsSurrogate(s[i])
    THEN Err("UnicodeEncodeError")
    ELSE Ok(UTF8Bytes(s))

(***************************************************************************)
(* bytes.decode(): strict UTF-8 (no overlong forms, no surrogates, nothing *)
(* above U+10FFFF); any malformed sequence raises UnicodeDecodeError.      *)
(***************************************************************************)
IsCont(s, i) == i <= Len(s) /\ s[i] >= 128 /\ s[i] <= 191
InRange(s, i, lo, hi) == i <= Len(s) /\ s[i] >= lo /\ s[i] <= hi

RECURSIVE UTF8Decode(_, _, _)
UTF8Decode(s, i, out) ==
    IF i > Len(s) THEN Ok(out)
    ELSE LET b == s[i] IN
      IF b < 128 THEN UTF8Decode(s, i + 1, Append(out, b))
      ELSE IF b >= 194 /\ b <= 223 THEN
        IF IsCont(s, i + 1)
        THEN UTF8Decode(s, i + 2, Append(out, (b - 192) * 64 + (s[i + 1] - 128)))
        ELSE Err("UnicodeDecodeError")
      ELSE IF b >= 224 /\ b <= 239 THEN
        IF /\ InRange(s, i + 1, IF b = 224 THEN 160 ELSE 128,
                                IF b = 237 THEN 159 ELSE 191)
           /\ IsCont(s, i + 2)
        THEN UTF8Decode(s, i + 3,
               Append(out, (b - 224) * 4096 + (s[i + 1] - 128) * 64
                           + (s[i + 2] - 128)))
        ELSE Err("UnicodeDecodeError")
      ELSE IF b >= 240 /\ b <= 244 THEN
        IF /\ InRange(s, i + 1, IF b = 240 THEN 144 ELSE 128,
                                IF b = 244 THEN 143 ELSE 191)
           /\ IsCont(s, i + 2)
           /\ IsCont(s, i + 3)
        THEN UTF8Decode(s, i + 4,
               Append(out, (b - 240) * 262144 + (s[i + 1] - 128) * 4096
                           + (s[i + 2] - 128) * 64 + (s[i + 3] - 128)))
        ELSE Err("UnicodeDecodeError")
      ELSE Err("UnicodeDecodeError")

BytesDecode(b) == UTF8Decode(b, 1, <<>>)

(***************************************************************************)
(* base64: the standard alphabet, '=' padding, and the two characters the  *)
(* code substitutes for '+' and '/' (altchars b"-_"), '~' for '='.        *)
(***************************************************************************)
StdAlphabet ==
    <<65, 66, 67, 68, 69, 70, 71, 72, 73, 74, 75, 76, 77,
      78, 79, 80, 81, 82, 83, 84, 85, 86, 87, 88, 89, 90,
      97, 98, 99, 100, 101, 102, 103, 104, 105, 106, 107, 108, 109,
      110, 111, 112, 113, 114, 115, 116, 117, 118, 119, 120, 121, 122,
      48, 49, 50, 51, 52, 53, 54, 55, 56, 57, 43, 47>>

ChPlus == 43
ChSlash == 47
ChEq == 61
ChMinus == 45
ChUnderscore == 95
ChTilde == 126

\* bytes.translate(bytes.maketrans(<<a1, a2>>, <<b1, b2>>)) and str.replace
\* of one character by another: both map characters one by one.
Translate(s, a1, b1, a2, b2) ==
    [i \in 1..Len(s) |-> IF s[i] = a1 THEN b1 ELSE IF s[i] = a2 THEN b2 ELSE s[i]]

Replace(s, a, b) == [i \in 1..Len(s) |-> IF s[i] = a THEN b ELSE s[i]]

\* binascii.b2a_base64 (without the trailing newline)
RECURSIVE B2A(_)
B2A(b) ==
    IF Len(b) = 0 THEN <<>>
    ELSE IF Len(b) = 1 THEN
        <<StdAlphabet[(b[1] \div 4) + 1],
          StdAlphabet[((b[1] % 4) * 16) + 1], ChEq, ChEq>>
    ELSE IF Len(b) = 2 THEN
        <<StdAlphabet[(b[1] \div 4) + 1],
          StdAlphabet[((b[1] % 4) * 16 + (b[2] \div 16)) + 1],
          StdAlphabet[((b[2] % 16) * 4) + 1], ChEq>>
    ELSE
        <<StdAlphabet[(b[1] \div 4) + 1],
          StdAlphabet[((b[1] % 4) * 16 + (b[2] \div 16)) + 1],
          StdAlphabet[((b[2] % 16) * 4 + (b[3] \div 64)) + 1],
          StdAlphabet[(b[3] % 64) + 1]>> \o B2A(SubSeq(b, 4, Len(b)))

\* the standard alphabet is left as it is
B64EncodeStandard(b) == B2A(b)

\* base64.b64encode(s, altchars)
B64Encode(b) == Translate(B2A(b), ChPlus, ChMinus, ChSlash, ChUnderscore)

\* table_a2b_base64: the 6-bit value of a character, 64 when it has none
A2BValue(c) ==
    IF \E k \in 1..64 : StdAlphabet[k] = c
    THEN (CHOOSE k \in 1..64 : StdAlphabet[k] = c) - 1
    ELSE 64

\* binascii.a2b_base64, non-strict: characters outside the alphabet are
\* skipped, a complete pad sequence ends the input, leftover characters of
\* an unfinished quad raise binascii.Error.
RECURSIVE A2B(_, _, _, _, _, _)
A2B(s, i, quad, left, pads, out) ==
    IF i > Len(s) THEN
        (IF quad # 0 THEN Err("binascii.Error") ELSE Ok(out))
    ELSE IF s[i] = ChEq THEN
        (IF quad >= 2 /\ quad + pads + 1 >= 4
         THEN Ok(out)
         ELSE A2B(s, i + 1, quad, left, IF quad >= 2 THEN pads + 1 ELSE pads, out))
    ELSE LET v == A2BValue(s[i]) IN
        IF v >= 64 THEN A2B(s, i + 1, quad, left, pads, out)
        ELSE IF quad = 0 THEN A2B(s, i + 1, 1, v, 0, out)
        ELSE IF quad = 1 THEN
            A2B(s, i + 1, 2, v % 16, 0, Append(out, left * 4 + (v \div 16)))
        ELSE IF quad = 2 THEN
            A2B(s, i + 1, 3, v % 4, 0, Append(out, left * 16 + (v \div 4)))
        ELSE A2B(s, i + 1, 0, 0, 0, Append(out, left * 64 + v))

\* base64.b64decode(s, altchars), validate=False
B64Decode(b) == A2B(Translate(b, ChMinus, ChPlus, ChUnderscore, ChSlash), 1, 0, 0, 0, <<>>)

(***************************************************************************)
(* api.encode / api.decode (client.encode_key / client.decode_key are the  *)
(* same expressions).                                                      *)
(***************************************************************************)
\* encode that drops the padding instead of replacing it
encode_strips_padding(strng) ==
    LET b == StrEncode(strng) IN
    IF ~b.ok THEN b
    ELSE Ok(SelectSeq(B64Encode(b.val), LAMBDA c : c # ChEq))

encode(strng) ==
    LET b == StrEncode(strng) IN
    IF ~b.ok THEN b
    ELSE Ok(Replace(B64Encode(b.val), ChEq, ChTilde))

\* decode without restoring the padding
decode_keeps_tilde(strng) ==
    LET b == StrEncode(strng) IN
    IF ~b.ok THEN b
    ELSE LET raw == B64Decode(b.val) IN
         IF ~raw.ok THEN raw ELSE BytesDecode(raw.val)

decode(strng) ==
    LET b == StrEncode(Replace(strng, ChTilde, ChEq)) IN
    IF ~b.ok THEN b
    ELSE LET raw == B64Decode(b.val) IN
         IF ~raw.ok THEN raw ELSE BytesDecode(raw.val)

(***************************************************************************)
(* Python values: None is the empty tuple, any other value v is <<v>>;     *)
(* `x or y` yields y when x is None, 0 or the empty string.                *)
(***************************************************************************)
NoneV == <<>>
Some(v) == <<v>>

\* truth of an optional integer, of an optional name (sort field, sort
\* order) and of an optional string of code points (resume token)
TruthyInt(o) == o # NoneV /\ o[1] # 0
TruthyStr(o) == o # NoneV /\ o[1] # ""
TruthyTok(o) == o # NoneV /\ o[1] # <<>>

IntOr(o, dflt) == IF TruthyInt(o) THEN o[1] ELSE dflt
StrOr(o, dflt) == IF TruthyStr(o) THEN o[1] ELSE dflt

(***************************************************************************)
(* State.                                                                  *)
(*   cstr, ctok, cout, cpc : a string taken through encode and decode      *)
(*   docs     : the static dataset matching the query, in the backend's    *)
(*              internal order; docs[i] is the publication day of doc i    *)
(*   impl     : which listing implementation serves the session            *)
(*   maxpage  : config["maxpage"] / client_config.maxpage                  *)
(*   req      : the fixed request parameters of the paging session         *)
(*   resume   : the resume token the client sends with its next request    *)
(*   resp     : the last response of the listing handler                   *)
(*   pages    : the pages the client has collected                         *)
(*   pc       : position of the paging client, or of a single request      *)
(*   endpoint : the endpoint a single request goes to                      *)
(*   esres    : the aggregations the backend computes for the query, by    *)
(*              aggregated field; for an article lookup, how the backend   *)
(*              answers                                                    *)
(*   lists    : the "_source" list objects of the queries being built, by  *)
(*              identity                                                   *)
(*   thr      : the concurrent listing requests, one per thread            *)
(*   boot     : the connection bootstrap                                   *)
(***************************************************************************)
VARIABLES cstr, ctok, cout, cpc, docs, impl, maxpage, req, resume, resp, pages, pc, endpoint, esres, lists, thr, boot

codecVars == <<cstr, ctok, cout, cpc>>
pagingVars == <<docs, impl, maxpage, req, resume, resp, pages, pc>>
apiVars == <<endpoint, esres>>
concVars == <<lists, thr>>
vars == <<cstr, ctok, cout, cpc, docs, impl, maxpage, req, resume, resp, pages, pc, endpoint, esres, lists, thr, boot>>

(***************************************************************************)
(* The backend (Elasticsearch), an external collaborator: sort values of   *)
(* a date field under format basic_date_time_no_millis, and search with    *)
(* sort, size and search_after.  Times are seconds since                   *)
(* 2023-01-01T00:00:00Z, within January 2023.                              *)
(***************************************************************************)
TwoDigits(n) == <<48 + (n \div 10), 48 + (n % 10)>>

IsDigit(c) == c >= 48 /\ c <= 57

FormatBasicDateTime(t) ==
    <<50, 48, 50, 51, 48, 49>> \o TwoDigits((t \div 86400) + 1) \o <<84>>
      \o TwoDigits((t % 86400) \div 3600) \o TwoDigits((t % 3600) \div 60)
      \o TwoDigits(t % 60) \o <<90>>

ParseBasicDateTime(s) ==
    IF /\ Len(s) = 16
       /\ SubSeq(s, 1, 6) = <<50, 48, 50, 51, 48, 49>>
       /\ s[9] = 84 /\ s[16] = 90
       /\ \A i \in {7, 8, 10, 11, 12, 13, 14, 15} : IsDigit(s[i])
    THEN LET n(i) == (s[i] - 48) * 10 + (s[i + 1] - 48) IN
         IF n(7) >= 1 /\ n(7) <= 31 /\ n(10) <= 23 /\ n(12) <= 59 /\ n(14) <= 59
         THEN Ok((n(7) - 1) * 86400 + n(10) * 3600 + n(12) * 60 + n(14))
         ELSE Err("parse_exception")
    ELSE Err("parse_exception")

\* the stored document i of dataset ds, field by field, a value v as
\* Some(v) and null as None: its dates are ISO strings, the
\* publication date a day ("2023-01-02"), the indexed date a date and time
\* ("2023-01-01T01:01:01"); any other field holds a short text of its own,
\* the url ends in the number of the document
SourceFields ==
    <<"article_title", "normalized_article_title", "publication_date",
      "indexed_date", "language", "full_language", "canonical_domain",
      "url", "normalized_url", "original_url", "text_content",
      "text_extraction">>

IsoDate(t) == <<50, 48, 50, 51, 45, 48, 49, 45>> \o TwoDigits((t \div 86400) + 1)

IsoDateTime(t) ==
    IsoDate(t) \o <<84>> \o TwoDigits((t % 86400) \div 3600) \o <<58>>
      \o TwoDigits((t % 3600) \div 60) \o <<58>> \o TwoDigits(t % 60)

DocField(ds, i, f) ==
    IF f = "publication_date" THEN Some(IsoDate((ds[i] - 1) * 86400))
    ELSE IF f = "indexed_date" THEN Some(IsoDateTime(i * 3661))
    ELSE Some(<<96 + (CHOOSE k \in 1..Len(SourceFields) : SourceFields[k] = f), 48 + i>>)

\* the value of a date field of document i of dataset ds; documents are
\* indexed one after another, so indexed_date follows the internal order
FieldValue(ds, i, field) ==
    IF field = "publication_date" THEN (ds[i] - 1) * 86400 ELSE i * 3661

\* hit i precedes hit j in the backend's result order: by sort value in the
\* requested direction, ties by internal order
Precedes(ds, body, i, j) ==
    LET ki == FieldValue(ds, i, body.sort_field)
        kj == FieldValue(ds, j, body.sort_field)
    IN  \/ (body.sort_order = "asc" /\ ki < kj)
        \/ (body.sort_order = "desc" /\ ki > kj)
        \/ (ki = kj /\ i < j)

RECURSIVE SortHits(_, _, _)
SortHits(ds, body, S) ==
    IF S = {} THEN <<>>
    ELSE LET first == CHOOSE i \in S : \A j \in S \ {i} : Precedes(ds, body, i, j)
         IN  <<first>> \o SortHits(ds, body, S \ {first})

\* search_after with a single sort value: only documents strictly beyond it
IsAfter(ds, body, i, after) ==
    LET k == FieldValue(ds, i, body.sort_field) IN
    IF body.sort_order = "asc" THEN k > after ELSE k < after

ES_search(ds, body) ==
    LET after == IF body.search_after = NoneV THEN Ok(0)
                 ELSE ParseBasicDateTime(body.search_after[1][1])
    IN  IF ~after.ok THEN Err("TransportError")
        ELSE LET S == {i \in 1..Len(ds) :
                         body.search_after = NoneV
                         \/ IsAfter(ds, body, i, after.val)}
                 all == SortHits(ds, body, S)
                 n == IF Len(all) < body.size THEN Len(all) ELSE body.size
             IN  Ok([i \in 1..n |->
                      [id |-> all[i],
                       _source |-> [f \in {body._source[k] : k \in 1..Len(body._source)}
                                      |-> DocField(ds, all[i], f)],
                       sort |-> <<FormatBasicDateTime(
                                    FieldValue(ds, all[i], body.sort_field))>>]])

\* an aggregating search: the first documents that match (10 when the body
\* names no size), the total of matching documents, and for each aggregation
\* the body names the buckets of the field it aggregates
DefaultSize == 10

AggregatedField(name) ==
    IF name \in {"daily", "dailycounts"} THEN "publication_date"
    ELSE IF name \in {"lang", "toplangs"} THEN "language"
    ELSE IF name \in {"domain", "topdomains"} THEN "canonical_domain"
    ELSE IF name = "tld" THEN "tld"
    ELSE "terms"

ES_aggregate(ds, computed, body) ==
    LET n == IF Len(ds) < DefaultSize THEN Len(ds) ELSE DefaultSize IN
    [hits |-> [i \in 1..n |->
                 IF body._source = <<>> THEN [id |-> i]
                 ELSE [id |-> i,
                       _source |-> [f \in {body._source[k] : k \in 1..Len(body._source)}
                                      |-> DocField(ds, i, f)]]],
     total |-> computed.total,
     aggregations |-> [a \in body.aggregations |->
                         [buckets |-> computed[AggregatedField(a)]]]]

(***************************************************************************)
(* Validation and the paged query (api.py 277-330, client.py 81-179).      *)
(* An HTTPException is an error whose name is its status code.             *)
(***************************************************************************)
VALID_SORT_ORDERS == {"asc", "desc"}
VALID_SORT_FIELDS == {"publication_date", "indexed_date"}

DefaultClientPageSize == 1000

_validate_sort_order(sort_order) ==
    IF sort_order # "" /\ sort_order \notin VALID_SORT_ORDERS
    THEN Err("400") ELSE Ok(sort_order)

_validate_sort_field(sort_field) ==
    IF sort_field # "" /\ sort_field \notin VALID_SORT_FIELDS
    THEN Err("400") ELSE Ok(sort_field)

_validate_page_size(page_size) ==
    IF page_size # 0 /\ page_size < 1 THEN Err("400") ELSE Ok(page_size)

\* the sort order is always the default
FinalSortOrderIgnoresRequest(sort_order) == _validate_sort_order("desc")

FinalSortOrder(sort_order) == _validate_sort_order(StrOr(sort_order, "desc"))

FinalSortField(sort_field) ==
    _validate_sort_field(StrOr(sort_field, "publication_date"))

\* the source projection of the basic query; the query text selects the
\* dataset and is not part of the model
cs_basic_query(expanded) ==
    [_source |-> IF expanded
                 THEN SubSeq(SourceFields, 1, 10) \o <<"text_content", "text_extraction">>
                 ELSE SubSeq(SourceFields, 1, 10)]

\* the body common to cs_paged_query and QueryBuilder.paged_query, given the
\* page size each of them falls back to
PagedQueryBody(dflt, resume_, expanded, sort_field, sort_order, page_size) ==
    LET query == cs_basic_query(expanded)
        final_sort_field == FinalSortField(sort_field)
        final_sort_order == FinalSortOrder(sort_order)
        size == _validate_page_size(IntOr(page_size, dflt))
        after == IF TruthyTok(resume_) THEN decode(resume_[1]) ELSE Ok(<<>>)
    IN  IF ~final_sort_field.ok THEN final_sort_field
        ELSE IF ~final_sort_order.ok THEN final_sort_order
        ELSE IF ~size.ok THEN size
        ELSE IF ~after.ok THEN Err("500")
        ELSE Ok([_source |-> query._source,
                 size |-> size.val,
                 track_total_hits |-> FALSE,
                 sort_field |-> final_sort_field.val,
                 sort_order |-> final_sort_order.val,
                 format |-> "basic_date_time_no_millis",
                 search_after |-> IF TruthyTok(resume_)
                                  THEN Some(<<after.val>>) ELSE NoneV])

\* the resume token reaches the backend as it came, not decoded
cs_paged_query_raw_cursor(mp, resume_, expanded, sort_field, sort_order, page_size) ==
    LET q == PagedQueryBody(mp, resume_, expanded, sort_field, sort_order, page_size)
    IN  IF q.ok /\ q.val.search_after # NoneV
        THEN Ok([q.val EXCEPT !.search_after = Some(<<resume_[1]>>)])
        ELSE q

\* the requested page size never reaches the query
cs_paged_query_default_size(mp, resume_, expanded, sort_field, sort_order, page_size) ==
    PagedQueryBody(mp, resume_, expanded, sort_field, sort_order, NoneV)

cs_paged_query(mp, resume_, expanded, sort_field, sort_order, page_size) ==
    PagedQueryBody(mp, resume_, expanded, sort_field, sort_order, page_size)

paged_query(resume_, expanded, sort_field, sort_order, page_size) ==
    PagedQueryBody(DefaultClientPageSize, resume_, expanded, sort_field,
                   sort_order, page_size)

\* str() of a sort value: with a format in the sort clause the backend
\* returns the sort value as a string, which str() leaves as it is
PyStr(v) == v

\* dict.get: the value under a key, None when the key is missing
PyGet(src, f) == IF f \in DOMAIN src THEN src[f] ELSE NoneV

\* s[:10]
Take10(s) == SubSeq(s, 1, IF Len(s) < 10 THEN Len(s) ELSE 10)

\* urls.unique_url_hash: one identifier per url; the model names a document
\* by the number its url ends in
unique_url_hash(url) == url[1][2] - 48

\* format_match without the test of the expanded flag
format_match_always_expanded(hit, expanded) ==
    LET src == hit._source IN
    [article_title |-> PyGet(src, "article_title"),
     normalized_article_title |-> PyGet(src, "normalized_article_title"),
     publication_date |-> IF TruthyTok(PyGet(src, "publication_date"))
                          THEN Some(Take10(PyGet(src, "publication_date")[1]))
                          ELSE NoneV,
     indexed_date |-> PyGet(src, "indexed_date"),
     language |-> PyGet(src, "language"),
     full_langauge |-> PyGet(src, "full_language"),
     url |-> PyGet(src, "url"),
     normalized_url |-> PyGet(src, "normalized_url"),
     original_url |-> PyGet(src, "original_url"),
     canonical_domain |-> PyGet(src, "canonical_domain"),
     id |-> unique_url_hash(PyGet(src, "url")),
     text_content |-> PyGet(src, "text_content"),
     text_extraction |-> PyGet(src, "text_extraction")]

\* format_match that passes the stored publication date on as it is
format_match_untruncated(hit, expanded) ==
    LET src == hit._source
        res == [article_title |-> PyGet(src, "article_title"),
                normalized_article_title |-> PyGet(src, "normalized_article_title"),
                publication_date |-> PyGet(src, "publication_date"),
                indexed_date |-> PyGet(src, "indexed_date"),
                language |-> PyGet(src, "language"),
                full_langauge |-> PyGet(src, "full_language"),
                url |-> PyGet(src, "url"),
                normalized_url |-> PyGet(src, "normalized_url"),
                original_url |-> PyGet(src, "original_url"),
                canonical_domain |-> PyGet(src, "canonical_domain"),
                id |-> unique_url_hash(PyGet(src, "url"))]
    IN  IF expanded
        THEN res @@ [text_content |-> PyGet(src, "text_content"),
                     text_extraction |-> PyGet(src, "text_extraction")]
        ELSE res

format_match(hit, expanded) ==
    LET src == hit._source
        res == [article_title |-> PyGet(src, "article_title"),
                normalized_article_title |-> PyGet(src, "normalized_article_title"),
                publication_date |-> IF TruthyTok(PyGet(src, "publication_date"))
                                     THEN Some(Take10(PyGet(src, "publication_date")[1]))
                                     ELSE NoneV,
                indexed_date |-> PyGet(src, "indexed_date"),
                language |-> PyGet(src, "language"),
                full_langauge |-> PyGet(src, "full_language"),
                url |-> PyGet(src, "url"),
                normalized_url |-> PyGet(src, "normalized_url"),
                original_url |-> PyGet(src, "original_url"),
                canonical_domain |-> PyGet(src, "canonical_domain"),
                id |-> unique_url_hash(PyGet(src, "url"))]
    IN  IF expanded
        THEN res @@ [text_content |-> PyGet(src, "text_content"),
                     text_extraction |-> PyGet(src, "text_extraction")]
        ELSE res

\* the outcome of a handler: the status, the formatted hits, the resume
\* token, the body sent to the backend and the hits it returned, and the
\* number of backend search calls the handler made
Response(status, matches, token, query, hits, calls) ==
    [status |-> status, matches |-> matches, token |-> token,
     query |-> query, hits |-> hits, calls |-> calls]

\* a token also for a page that is not full
ResumeKeyAlsoShortPage(hits, page_size, mp) ==
    IF Len(hits) <= IntOr(page_size, mp)
    THEN Some(encode(PyStr(hits[Len(hits)].sort[1])))
    ELSE NoneV

\* the hit count is compared with the default page size only
ResumeKeyDefaultSize(hits, page_size, mp) ==
    IF Len(hits) = mp
    THEN Some(encode(PyStr(hits[Len(hits)].sort[1])))
    ELSE NoneV

\* the token is made of the first hit of the page
ResumeKeyFirstHit(hits, page_size, mp) ==
    IF Len(hits) = IntOr(page_size, mp)
    THEN Some(encode(PyStr(hits[1].sort[1])))
    ELSE NoneV

\* the x-resume-token of a page: set when the page looks full
ResumeKey(hits, page_size, mp) ==
    IF Len(hits) = IntOr(page_size, mp)
    THEN Some(encode(PyStr(hits[Len(hits)].sort[1])))
    ELSE NoneV

\* what follows the construction of the query in api._search_result and in
\* EsClientWrapper.search_result
\* the backend is asked before the query is known to be valid, and asked
\* again when it fails
SearchWithEagerRetry(query, ds, mp, expanded, page_size) ==
    IF ~query.ok THEN Response(query.err, <<>>, NoneV, NoneV, <<>>, 1)
    ELSE LET res == ES_search(ds, query.val) IN
         IF ~res.ok THEN Response("500", <<>>, NoneV, Some(query.val), <<>>, 2)
         ELSE IF res.val = <<>>
         THEN Response("404", <<>>, NoneV, Some(query.val), <<>>, 1)
         ELSE LET key == ResumeKey(res.val, page_size, mp) IN
              IF key # NoneV /\ ~key[1].ok
              THEN Response("500", <<>>, NoneV, Some(query.val), res.val, 1)
              ELSE Response("200",
                            [i \in 1..Len(res.val) |->
                               format_match(res.val[i], expanded)],
                            IF key = NoneV THEN NoneV ELSE Some(key[1].val),
                            Some(query.val), res.val, 1)

\* the page is built from the end of the hit list
SearchWithReversedPage(query, ds, mp, expanded, page_size) ==
    IF ~query.ok THEN Response(query.err, <<>>, NoneV, NoneV, <<>>, 0)
    ELSE LET res == ES_search(ds, query.val) IN
         IF ~res.ok THEN Response("500", <<>>, NoneV, Some(query.val), <<>>, 1)
         ELSE IF res.val = <<>>
         THEN Response("404", <<>>, NoneV, Some(query.val), <<>>, 1)
         ELSE LET key == ResumeKey(res.val, page_size, mp) IN
              IF key # NoneV /\ ~key[1].ok
              THEN Response("500", <<>>, NoneV, Some(query.val), res.val, 1)
              ELSE Response("200",
                            [i \in 1..Len(res.val) |->
                               format_match(res.val[Len(res.val) + 1 - i], expanded)],
                            IF key = NoneV THEN NoneV ELSE Some(key[1].val),
                            Some(query.val), res.val, 1)

SearchWith(query, ds, mp, expanded, page_size) ==
    IF ~query.ok THEN Response(query.err, <<>>, NoneV, NoneV, <<>>, 0)
    ELSE LET res == ES_search(ds, query.val) IN
         IF ~res.ok THEN Response("500", <<>>, NoneV, Some(query.val), <<>>, 1)
         ELSE IF res.val = <<>>
         THEN Response("404", <<>>, NoneV, Some(query.val), <<>>, 1)
         ELSE LET key == ResumeKey(res.val, page_size, mp) IN
              IF key # NoneV /\ ~key[1].ok
              THEN Response("500", <<>>, NoneV, Some(query.val), res.val, 1)
              ELSE Response("200",
                            [i \in 1..Len(res.val) |->
                               format_match(res.val[i], expanded)],
                            IF key = NoneV THEN NoneV ELSE Some(key[1].val),
                            Some(query.val), res.val, 1)

(***************************************************************************)
(* Overview and terms (api.py 216-270, 356-361, 454-472, 569-576;          *)
(* client.py 119-150, 252-323, 397-413).                                   *)
(***************************************************************************)
cs_overview_query ==
    [_source |-> cs_basic_query(FALSE)._source,
     aggregations |-> {"daily", "lang", "domain", "tld"},
     track_total_hits |-> TRUE]

\* QueryBuilder.aggregator_query for the aggregators of search_overview
aggregator_query ==
    [_source |-> cs_basic_query(FALSE)._source,
     aggregations |-> {"dailycounts", "toplangs", "topdomains"},
     track_total_hits |-> TRUE]

\* "_source": False is the empty projection
cs_terms_query ==
    [_source |-> <<>>,
     aggregations |-> {"topterms"},
     track_total_hits |-> FALSE]

\* a dict comprehension over the buckets: a later bucket replaces an
\* earlier one of the same key
format_counts(bucket) ==
    [k \in {bucket[i].key : i \in 1..Len(bucket)} |->
       bucket[CHOOSE i \in 1..Len(bucket) :
                /\ bucket[i].key = k
                /\ \A j \in (i + 1)..Len(bucket) : bucket[j].key # k].doc_count]

format_day_counts(bucket) ==
    [k \in {Take10(bucket[i].key_as_string) : i \in 1..Len(bucket)} |->
       bucket[CHOOSE i \in 1..Len(bucket) :
                /\ Take10(bucket[i].key_as_string) = k
                /\ \A j \in (i + 1)..Len(bucket) :
                      Take10(bucket[j].key_as_string) # k].doc_count]

\* sum(item["doc_count"] for item in buckets)
RECURSIVE SumDocCount(_)
SumDocCount(bucket) ==
    IF bucket = <<>> THEN 0 ELSE Head(bucket).doc_count + SumDocCount(Tail(bucket))

PyMax(a, b) == IF a >= b THEN a ELSE b

NotFound == [status |-> "404", calls |-> 1]

\* the overview answers also when nothing was hit
_search_overview_no_check(ds, computed) ==
    LET res == ES_aggregate(ds, computed, cs_overview_query)
        total == res.total
        tldsum == SumDocCount(res.aggregations["tld"].buckets)
    IN  [status |-> "200", calls |-> 1,
         total |-> PyMax(total, tldsum),
         topdomains |-> format_counts(res.aggregations["domain"].buckets),
         toptlds |-> format_counts(res.aggregations["tld"].buckets),
         toplangs |-> format_counts(res.aggregations["lang"].buckets),
         dailycounts |-> format_day_counts(res.aggregations["daily"].buckets),
         matches |-> [i \in 1..Len(res.hits) |-> format_match(res.hits[i], FALSE)]]

\* the overview reports the backend's total as it is
_search_overview_plain_total(ds, computed) ==
    LET res == ES_aggregate(ds, computed, cs_overview_query)
        total == res.total
    IN  IF res.hits = <<>> THEN NotFound
        ELSE [status |-> "200", calls |-> 1,
              total |-> total,
              topdomains |-> format_counts(res.aggregations["domain"].buckets),
              toptlds |-> format_counts(res.aggregations["tld"].buckets),
              toplangs |-> format_counts(res.aggregations["lang"].buckets),
              dailycounts |-> format_day_counts(res.aggregations["daily"].buckets),
              matches |-> [i \in 1..Len(res.hits) |-> format_match(res.hits[i], FALSE)]]

_search_overview(ds, computed) ==
    LET res == ES_aggregate(ds, computed, cs_overview_query)
        total == res.total
        tldsum == SumDocCount(res.aggregations["tld"].buckets)
    IN  IF res.hits = <<>> THEN NotFound
        ELSE [status |-> "200", calls |-> 1,
              total |-> PyMax(total, tldsum),
              topdomains |-> format_counts(res.aggregations["domain"].buckets),
              toptlds |-> format_counts(res.aggregations["tld"].buckets),
              toplangs |-> format_counts(res.aggregations["lang"].buckets),
              dailycounts |-> format_day_counts(res.aggregations["daily"].buckets),
              matches |-> [i \in 1..Len(res.hits) |-> format_match(res.hits[i], FALSE)]]

\* EsClientWrapper.search_overview: aggregator_query with the daily counts,
\* the top languages and the top domains, overview=True
search_overview(ds, computed) ==
    LET res == ES_aggregate(ds, computed, aggregator_query)
        total == res.total
        domain_sum == SumDocCount(res.aggregations["topdomains"].buckets)
    IN  IF res.hits = <<>> THEN NotFound
        ELSE [status |-> "200", calls |-> 1,
              dailycounts |-> format_day_counts(res.aggregations["dailycounts"].buckets),
              toplangs |-> format_counts(res.aggregations["toplangs"].buckets),
              topdomains |-> format_counts(res.aggregations["topdomains"].buckets),
              total |-> PyMax(total, domain_sum),
              matches |-> [i \in 1..Len(res.hits) |-> format_match(res.hits[i], FALSE)]]

\* the terms answer whenever something was hit
_get_terms_hits_only(ds, computed) ==
    LET res == ES_aggregate(ds, computed, cs_terms_query) IN
    IF res.hits = <<>> THEN NotFound
    ELSE [status |-> "200", calls |-> 1,
          counts |-> format_counts(res.aggregations["topterms"].buckets)]

\* _get_terms and EsClientWrapper.get_terms
_get_terms(ds, computed) ==
    LET res == ES_aggregate(ds, computed, cs_terms_query) IN
    IF res.hits = <<>> \/ res.aggregations["topterms"].buckets = <<>>
    THEN NotFound
    ELSE [status |-> "200", calls |-> 1,
          counts |-> format_counts(res.aggregations["topterms"].buckets)]

_search_result(ds, mp, resume_, expanded, sort_field, sort_order, page_size) ==
    SearchWith(cs_paged_query(mp, resume_, expanded, sort_field, sort_order, page_size),
               ds, mp, expanded, page_size)

search_result(ds, mp, resume_, expanded, sort_field, sort_order, page_size) ==
    SearchWith(paged_query(resume_, expanded, sort_field, sort_order, page_size),
               ds, mp, expanded, page_size)

(***************************************************************************)
(* The cursor codec taken alone: a string is encoded, the token decoded.   *)
(***************************************************************************)
CodePoints == {62, 63, 65, 233, 8364, 128512, 55296}

RECURSIVE SeqsUpTo(_, _)
SeqsUpTo(S, n) ==
    IF n = 0 THEN {<<>>}
    ELSE LET shorter == SeqsUpTo(S, n - 1) IN
         shorter \cup {Append(s, x) : s \in {t \in shorter : Len(t) = n - 1}, x \in S}

PagingIdle ==
    /\ docs = <<>> /\ impl = "api" /\ maxpage = 1 /\ req = NoneV
    /\ resume = NoneV /\ resp = NoneV /\ pages = <<>> /\ pc = "idle"
    /\ endpoint = "none" /\ esres = NoneV
    /\ lists = <<>> /\ thr = <<>> /\ boot = NoneV

CodecIdle == cstr = <<>> /\ ctok = NoneV /\ cout = NoneV /\ cpc = "idle"

CodecInit ==
    /\ cstr \in SeqsUpTo(CodePoints, MaxStrLen)
    /\ ctok = NoneV /\ cout = NoneV /\ cpc = "start"
    /\ PagingIdle

Encode ==
    /\ cpc = "start"
    /\ ctok' = Some(encode(cstr))
    /\ cpc' = IF encode(cstr).ok THEN "encoded" ELSE "raised"
    /\ UNCHANGED <<cstr, cout>>
    /\ UNCHANGED pagingVars
    /\ UNCHANGED apiVars
    /\ UNCHANGED <<concVars, boot>>

Decode ==
    /\ cpc = "encoded"
    /\ cout' = Some(decode(ctok[1].val))
    /\ cpc' = "decoded"
    /\ UNCHANGED <<cstr, ctok>>
    /\ UNCHANGED pagingVars
    /\ UNCHANGED apiVars
    /\ UNCHANGED <<concVars, boot>>

CodecNext == Encode \/ Decode

CodecSpec == CodecInit /\ [][CodecNext]_vars

(***************************************************************************)
(* decode taken alone: any string may arrive as a resume token.            *)
(***************************************************************************)
\* 'A', 'Q', '~', '!', '+', '_'
TokenChars == {65, 81, 126, 33, 43, 95}

DecodeInit ==
    /\ cstr \in SeqsUpTo(TokenChars, MaxTokLen)
    /\ ctok = NoneV /\ cout = NoneV /\ cpc = "token"
    /\ PagingIdle

DecodeToken ==
    /\ cpc = "token"
    /\ cout' = Some(decode(cstr))
    /\ cpc' = "decoded token"
    /\ UNCHANGED <<cstr, ctok>>
    /\ UNCHANGED pagingVars
    /\ UNCHANGED apiVars
    /\ UNCHANGED <<concVars, boot>>

DecodeSpec == DecodeInit /\ [][DecodeToken]_vars

(***************************************************************************)
(* A paging session (api_test._get_all_stories): the client issues the     *)
(* listing request, collects the page and re-issues the request with the   *)
(* resume token of the response until a response carries none.             *)
(***************************************************************************)
OptOf(S) == {NoneV} \cup {Some(x) : x \in S}

Init ==
    /\ docs \in SeqsUpTo(1..MaxDate, MaxDocs)
    /\ impl \in {"api", "client"}
    /\ maxpage \in 1..MaxPageSize
    /\ req \in [expanded : BOOLEAN,
                sort_field : OptOf(VALID_SORT_FIELDS),
                sort_order : OptOf(VALID_SORT_ORDERS),
                page_size : OptOf(1..MaxPageSize)]
    /\ resume = NoneV
    /\ resp = NoneV
    /\ pages = <<>>
    /\ pc = "request"
    /\ endpoint = "result"
    /\ esres = NoneV
    /\ lists = <<>> /\ thr = <<>> /\ boot = NoneV
    /\ CodecIdle

\* the listing handler answers the client's request
SearchResult ==
    /\ pc = "request"
    /\ resp' = Some(IF impl = "api"
                    THEN _search_result(docs, maxpage, resume, req.expanded,
                                        req.sort_field, req.sort_order,
                                        req.page_size)
                    ELSE search_result(docs, maxpage, resume, req.expanded,
                                       req.sort_field, req.sort_order,
                                       req.page_size))
    /\ pc' = "response"
    /\ UNCHANGED <<docs, impl, maxpage, req, resume, pages>>
    /\ UNCHANGED codecVars
    /\ UNCHANGED apiVars
    /\ UNCHANGED <<concVars, boot>>

\* the client's assertion on the status fails
AssertStatusFails ==
    /\ pc = "response"
    /\ resp[1].status # "200"
    /\ pc' = "failed"
    /\ UNCHANGED <<docs, impl, maxpage, req, resume, resp, pages>>
    /\ UNCHANGED codecVars
    /\ UNCHANGED apiVars
    /\ UNCHANGED <<concVars, boot>>

\* the client keeps the page and follows the resume token
FollowCursor ==
    /\ pc = "response"
    /\ resp[1].status = "200"
    /\ resp[1].token # NoneV
    /\ pages' = Append(pages, resp[1].matches)
    /\ resume' = resp[1].token
    /\ pc' = "request"
    /\ UNCHANGED <<docs, impl, maxpage, req, resp>>
    /\ UNCHANGED codecVars
    /\ UNCHANGED apiVars
    /\ UNCHANGED <<concVars, boot>>

\* the client keeps the page; no resume token came back
LastPage ==
    /\ pc = "response"
    /\ resp[1].status = "200"
    /\ resp[1].token = NoneV
    /\ pages' = Append(pages, resp[1].matches)
    /\ resume' = NoneV
    /\ pc' = "done"
    /\ UNCHANGED <<docs, impl, maxpage, req, resp>>
    /\ UNCHANGED codecVars
    /\ UNCHANGED apiVars
    /\ UNCHANGED <<concVars, boot>>

Next == SearchResult \/ AssertStatusFails \/ FollowCursor \/ LastPage

Spec == Init /\ [][Next]_vars

\* The handler and the client run to completion: a session that has not
\* ended takes its next step.  Every step of Next changes pc, and some step
\* of Next is possible whenever pc is "request" or "response".
Advance ==
    /\ pc \in {"request", "response"}
    /\ pc' \in {"request", "response", "done", "failed"}
    /\ pc' # pc

FairSpec == Spec /\ WF_pc(Advance)

\* a paging session whose first request may carry an empty resume parameter
CursorInit ==
    /\ docs \in SeqsUpTo(1..MaxDate, MaxDocs)
    /\ impl \in {"api", "client"}
    /\ maxpage \in 1..MaxPageSize
    /\ req \in [expanded : {FALSE},
                sort_field : OptOf(VALID_SORT_FIELDS),
                sort_order : OptOf(VALID_SORT_ORDERS),
                page_size : OptOf(1..MaxPageSize)]
    /\ resume \in {NoneV, Some(<<>>)}
    /\ resp = NoneV
    /\ pages = <<>>
    /\ pc = "request"
    /\ endpoint = "result"
    /\ esres = NoneV
    /\ lists = <<>> /\ thr = <<>> /\ boot = NoneV
    /\ CodecIdle

CursorSpec == CursorInit /\ [][Next]_vars

(***************************************************************************)
(* A single request to the listing, overview or terms endpoint, with any   *)
(* parameters the HTTP layer lets through (strings, integers, a boolean).  *)
(***************************************************************************)
\* resume tokens: the token of the first second of the data; "A", which is
\* not base64; "_w~~", the byte 255, which is not UTF-8; "QQ~~", the
\* string "A", which is no date
ResumeTokens ==
    {NoneV, Some(<<>>), Some(encode(FormatBasicDateTime(0)).val),
     Some(<<65>>), Some(<<95, 119, 126, 126>>), Some(<<81, 81, 126, 126>>)}

\* bucket lists as the backend returns them: one bucket per key, by
\* descending count
BucketLists(K) ==
    {b \in SeqsUpTo([key : K, doc_count : 1..MaxCount], Cardinality(K)) :
       /\ \A i, j \in 1..Len(b) : i # j => b[i].key # b[j].key
       /\ \A i \in 1..(Len(b) - 1) : b[i].doc_count >= b[i + 1].doc_count}

DayBuckets ==
    {<<>>,
     <<[key_as_string |-> IsoDateTime(0) \o <<46, 48, 48, 48, 90>>, doc_count |-> 1]>>}

NoAggregations ==
    [total |-> 0, publication_date |-> <<>>, language |-> <<>>,
     canonical_domain |-> <<>>, tld |-> <<>>, terms |-> <<>>]

\* config["maxpage"] = int(os.getenv("MAXPAGE", config.get("maxpage", 1000))):
\* the MAXPAGE variable of the environment when it is set, else the maxpage
\* of the configuration file when it has one, else 1000.  Both defaults
\* apply to a missing value only: a configured 0 stays 0.  env is the number
\* MAXPAGE spells; with a MAXPAGE that spells no number int() raises at
\* import and no request is ever served.
ConfiguredMaxpage(env, file) ==
    IF env # NoneV THEN env[1]
    ELSE IF file # NoneV THEN file[1]
    ELSE 1000

ApiInit ==
    /\ endpoint \in {"result", "overview", "terms"}
    /\ impl \in {"api", "client"}
    /\ docs \in SeqsUpTo(1..MaxDate, MaxApiDocs)
    /\ IF endpoint = "result"
       THEN /\ maxpage \in {ConfiguredMaxpage(e, f) : e, f \in OptOf(0..MaxPageSize)}
            /\ req \in [expanded : BOOLEAN,
                        sort_field : OptOf(VALID_SORT_FIELDS \cup {"", "imagined_date"}),
                        sort_order : OptOf(VALID_SORT_ORDERS \cup {"", "foo"}),
                        page_size : OptOf((0 - MaxPageSize)..MaxPageSize)]
            /\ resume \in ResumeTokens
            /\ esres = NoneV
       ELSE /\ maxpage = 1
            /\ req = NoneV
            /\ resume = NoneV
            /\ IF endpoint = "overview"
               THEN esres \in {Some(c) : c \in
                       [total : Len(docs)..MaxTotal,
                        publication_date : DayBuckets,
                        language : BucketLists({"en"}),
                        canonical_domain : BucketLists({"example.com", "example.org"}),
                        tld : BucketLists({"com", "org"}),
                        terms : {<<>>}]}
               ELSE esres \in {Some([NoAggregations EXCEPT !.terms = b]) :
                                 b \in BucketLists({"robot", "time"})}
    /\ resp = NoneV
    /\ pages = <<>>
    /\ pc = "call"
    /\ lists = <<>> /\ thr = <<>> /\ boot = NoneV
    /\ CodecIdle

ListingRequest ==
    /\ pc = "call"
    /\ endpoint = "result"
    /\ resp' = Some(IF impl = "api"
                    THEN _search_result(docs, maxpage, resume, req.expanded,
                                        req.sort_field, req.sort_order,
                                        req.page_size)
                    ELSE search_result(docs, maxpage, resume, req.expanded,
                                       req.sort_field, req.sort_order,
                                       req.page_size))
    /\ pc' = "answered"
    /\ UNCHANGED <<docs, impl, maxpage, req, resume, pages>>
    /\ UNCHANGED codecVars
    /\ UNCHANGED apiVars
    /\ UNCHANGED <<concVars, boot>>

OverviewRequest ==
    /\ pc = "call"
    /\ endpoint = "overview"
    /\ resp' = Some(IF impl = "api"
                    THEN _search_overview(docs, esres[1])
                    ELSE search_overview(docs, esres[1]))
    /\ pc' = "answered"
    /\ UNCHANGED <<docs, impl, maxpage, req, resume, pages>>
    /\ UNCHANGED codecVars
    /\ UNCHANGED apiVars
    /\ UNCHANGED <<concVars, boot>>

TermsRequest ==
    /\ pc = "call"
    /\ endpoint = "terms"
    /\ resp' = Some(_get_terms(docs, esres[1]))
    /\ pc' = "answered"
    /\ UNCHANGED <<docs, impl, maxpage, req, resume, pages>>
    /\ UNCHANGED codecVars
    /\ UNCHANGED apiVars
    /\ UNCHANGED <<concVars, boot>>

ApiNext == ListingRequest \/ OverviewRequest \/ TermsRequest

ApiSpec == ApiInit /\ [][ApiNext]_vars

(***************************************************************************)
(* Concurrent listing requests (the HTTP framework runs the handlers in    *)
(* threads).  A thread builds the basic query, whose "_source" is a list   *)
(* object, builds the paged query around it, and calls the backend, which  *)
(* is sent the list as it is then.  api.cs_basic_query creates the list    *)
(* and extends it in place when the request is expanded; QueryBuilder      *)
(* creates the plain and the expanded list in __init__ and basic_query     *)
(* picks one.                                                              *)
(***************************************************************************)
Threads == {1, 2}

\* a list kept at module level, one object for every call
NewListShared(t, name) == <<0, name>>

\* the list object a list display creates: a new one at every evaluation
NewList(t, name) == <<t, name>>

ThreadRequests ==
    [expanded : BOOLEAN,
     sort_field : {NoneV},
     sort_order : {NoneV, Some("foo")},
     page_size : {NoneV, Some(1)}]

ConcInit ==
    /\ docs \in SeqsUpTo(1..MaxDate, MaxApiDocs)
    /\ impl \in {"api", "client"}
    /\ maxpage \in 1..MaxPageSize
    /\ thr \in [Threads -> {[pc |-> "basic", req |-> r, ref |-> NoneV,
                              body |-> NoneV, resp |-> NoneV] : r \in ThreadRequests}]
    /\ lists = <<>>
    /\ req = NoneV /\ resume = NoneV /\ resp = NoneV /\ pages = <<>>
    /\ pc = "threads" /\ endpoint = "result" /\ esres = NoneV /\ boot = NoneV
    /\ CodecIdle

ConcUnchanged ==
    /\ UNCHANGED <<docs, impl, maxpage, req, resume, resp, pages, pc>>
    /\ UNCHANGED codecVars
    /\ UNCHANGED apiVars
    /\ UNCHANGED boot

\* cs_basic_query up to the test of the expanded flag
CsBasicQuery(t) ==
    /\ impl = "api"
    /\ thr[t].pc = "basic"
    /\ lists' = (NewList(t, "source") :> SubSeq(SourceFields, 1, 10)) @@ lists
    /\ thr' = [thr EXCEPT ![t].ref = Some(NewList(t, "source")),
                          ![t].pc = IF thr[t].req.expanded THEN "extend" ELSE "paged"]
    /\ ConcUnchanged

\* default["_source"].extend(["text_content", "text_extraction"])
ExtendSource(t) ==
    /\ thr[t].pc = "extend"
    /\ lists' = [lists EXCEPT ![thr[t].ref[1]] = @ \o <<"text_content", "text_extraction">>]
    /\ thr' = [thr EXCEPT ![t].pc = "paged"]
    /\ ConcUnchanged

\* QueryBuilder.__init__ and the choice of basic_query
BuilderBasicQuery(t) ==
    /\ impl = "client"
    /\ thr[t].pc = "basic"
    /\ lists' = (NewList(t, "source") :> SubSeq(SourceFields, 1, 10))
                   @@ (NewList(t, "expanded") :>
                         SubSeq(SourceFields, 1, 10) \o <<"text_content", "text_extraction">>)
                   @@ lists
    /\ thr' = [thr EXCEPT ![t].ref = IF thr[t].req.expanded
                                     THEN Some(NewList(t, "expanded"))
                                     ELSE Some(NewList(t, "source")),
                          ![t].pc = "paged"]
    /\ ConcUnchanged

\* the rest of cs_paged_query / paged_query: validation, size, sort
PagedQuery(t) ==
    /\ thr[t].pc = "paged"
    /\ LET r == thr[t].req
           q == IF impl = "api"
                THEN cs_paged_query(maxpage, NoneV, r.expanded, r.sort_field,
                                    r.sort_order, r.page_size)
                ELSE paged_query(NoneV, r.expanded, r.sort_field, r.sort_order,
                                 r.page_size)
       IN  thr' = IF q.ok
                  THEN [thr EXCEPT ![t].body = Some(q.val), ![t].pc = "search"]
                  ELSE [thr EXCEPT ![t].resp = Some(SearchWith(q, docs, maxpage,
                                                              r.expanded, r.page_size)),
                                   ![t].pc = "done"]
    /\ UNCHANGED lists
    /\ ConcUnchanged

\* ES.search(body=query) and what follows it
SearchCall(t) ==
    /\ thr[t].pc = "search"
    /\ LET r == thr[t].req
           sent == [thr[t].body[1] EXCEPT !._source = lists[thr[t].ref[1]]]
       IN  thr' = [thr EXCEPT ![t].resp = Some(SearchWith(Ok(sent), docs, maxpage,
                                                         r.expanded, r.page_size)),
                              ![t].pc = "done"]
    /\ UNCHANGED lists
    /\ ConcUnchanged

ConcNext ==
    \E t \in Threads :
        \/ CsBasicQuery(t)
        \/ ExtendSource(t)
        \/ BuilderBasicQuery(t)
        \/ PagedQuery(t)
        \/ SearchCall(t)

ConcSpec == ConcInit /\ [][ConcNext]_vars

(***************************************************************************)
(* Article lookup by id (api.py 632-658, client.py 181-187, 415-436).      *)
(***************************************************************************)
\* how a search of the backend can end: it raises TransportError, or it
\* returns a value; the value is null, or an object without "hits", or an
\* object whose "hits" has no "hits", or a well-formed answer
AnswerShapes == {"TransportError", "null", "no hits", "no inner hits", "well-formed"}

\* the backend's answer to a match on _id with a source filter
ES_match_id(ds, id, source, shape) ==
    LET found == IF id \in 1..Len(ds)
                 THEN <<[id |-> id,
                         _source |-> [f \in {source[k] : k \in 1..Len(source)}
                                        |-> DocField(ds, id, f)]]>>
                 ELSE <<>>
    IN  IF shape = "TransportError" THEN Err("TransportError")
        ELSE IF shape = "null" THEN Ok(NoneV)
        ELSE IF shape = "no hits" THEN Ok(Some([took |-> 1]))
        ELSE IF shape = "no inner hits" THEN Ok(Some([hits |-> [total |-> 0]]))
        ELSE Ok(Some([hits |-> [hits |-> found]]))

\* res["hits"]["hits"]
HitsOfAnswer(res) ==
    IF res = NoneV THEN Err("TypeError")
    ELSE IF "hits" \notin DOMAIN res[1] THEN Err("KeyError")
    ELSE IF "hits" \notin DOMAIN res[1].hits THEN Err("KeyError")
    ELSE Ok(res[1].hits.hits)

ArticleResponse(status, article) == [status |-> status, article |-> article]

\* a failed search is taken for a search without hits
get_article_failure_as_empty(ds, id, shape) ==
    LET source == cs_basic_query(TRUE)._source
        res == ES_match_id(ds, id, source, shape)
        hits == IF res.ok THEN HitsOfAnswer(res.val) ELSE res
    IN  IF ~hits.ok THEN ArticleResponse("404", NoneV)
        ELSE IF Len(hits.val) > 0
        THEN ArticleResponse("200", Some(format_match(hits.val[1], TRUE)))
        ELSE ArticleResponse("404", NoneV)

get_article(ds, id, shape) ==
    LET source == cs_basic_query(TRUE)._source
        res == ES_match_id(ds, id, source, shape)
        hits == IF res.ok THEN HitsOfAnswer(res.val) ELSE res
    IN  IF ~hits.ok /\ hits.err \in {"TransportError", "TypeError", "KeyError"}
        THEN ArticleResponse("500", NoneV)
        ELSE IF Len(hits.val) > 0
        THEN ArticleResponse("200", Some(format_match(hits.val[1], TRUE)))
        ELSE ArticleResponse("404", NoneV)

ArticleInit ==
    /\ docs \in SeqsUpTo(1..MaxDate, MaxDocs)
    /\ impl \in {"api", "client"}
    /\ req \in [id : 1..(MaxDocs + 1)]
    /\ esres \in {Some(a) : a \in AnswerShapes}
    /\ endpoint = "article"
    /\ maxpage = 1 /\ resume = NoneV /\ resp = NoneV /\ pages = <<>>
    /\ pc = "article"
    /\ lists = <<>> /\ thr = <<>> /\ boot = NoneV
    /\ CodecIdle

ArticleRequest ==
    /\ pc = "article"
    /\ resp' = Some(get_article(docs, req.id, esres[1]))
    /\ pc' = "article answered"
    /\ UNCHANGED <<docs, impl, maxpage, req, resume, pages>>
    /\ UNCHANGED codecVars
    /\ UNCHANGED apiVars
    /\ UNCHANGED <<concVars, boot>>

ArticleSpec == ArticleInit /\ [][ArticleRequest]_vars

(***************************************************************************)
(* The collections the service exposes (api.py 94-110, client.py 213-230). *)
(* Names are strings of code points: "m1", "m2", "x1"; prefixes "m", "x".  *)
(***************************************************************************)
IndexNames == {<<109, 49>>, <<109, 50>>, <<120, 49>>}

IndexPrefixes == {<<109>>, <<120>>}

\* the indexes of a cluster, each with its aliases; no two indexes have the
\* same name and no alias has the name of an index
Clusters ==
    {c \in SeqsUpTo([name : IndexNames, aliases : SeqsUpTo(IndexNames, 1)], MaxIndexes) :
       /\ \A i, j \in 1..Len(c) : i # j => c[i].name # c[j].name
       /\ \A i, j \in 1..Len(c) : \A k \in 1..Len(c[i].aliases) :
             c[i].aliases[k] # c[j].name}

\* str.startswith
StartsWith(s, prefix) ==
    /\ Len(prefix) <= Len(s)
    /\ SubSeq(s, 1, Len(prefix)) = prefix

InList(x, list) == \E k \in 1..Len(list) : list[k] = x

\* for alias in aliases["aliases"].keys(): append it unless in the list
RECURSIVE AppendAliases(_, _)
AppendAliases(list, aliases) ==
    IF aliases = <<>> THEN list
    ELSE AppendAliases(IF InList(Head(aliases), list) THEN list
                       ELSE Append(list, Head(aliases)),
                       Tail(aliases))

\* for aliases in ES.indices.get_alias().values()
RECURSIVE AppendAllAliases(_, _)
AppendAllAliases(list, cluster) ==
    IF cluster = <<>> THEN list
    ELSE AppendAllAliases(AppendAliases(list, Head(cluster).aliases), Tail(cluster))

RECURSIVE PrefixedIndexes(_, _)
PrefixedIndexes(cluster, prefix) ==
    IF cluster = <<>> THEN <<>>
    ELSE (IF StartsWith(Head(cluster).name, prefix) THEN <<Head(cluster).name>> ELSE <<>>)
           \o PrefixedIndexes(Tail(cluster), prefix)

get_allowed_collections(cluster, prefix) ==
    LET all_indexes == PrefixedIndexes(cluster, prefix)
    IN  Append(AppendAllAliases(all_indexes, cluster), prefix \o <<45, 42>>)

CollectionsInit ==
    /\ esres \in {Some(c) : c \in Clusters}
    /\ req \in [prefix : IndexPrefixes]
    /\ impl \in {"api", "client"}
    /\ endpoint = "collections"
    /\ docs = <<>> /\ maxpage = 1 /\ resume = NoneV /\ resp = NoneV /\ pages = <<>>
    /\ pc = "collections"
    /\ lists = <<>> /\ thr = <<>> /\ boot = NoneV
    /\ CodecIdle

GetAllowedCollections ==
    /\ pc = "collections"
    /\ resp' = Some(get_allowed_collections(esres[1], req.prefix))
    /\ pc' = "collections listed"
    /\ UNCHANGED <<docs, impl, maxpage, req, resume, pages>>
    /\ UNCHANGED codecVars
    /\ UNCHANGED apiVars
    /\ UNCHANGED <<concVars, boot>>

CollectionsSpec == CollectionsInit /\ [][GetAllowedCollections]_vars

(***************************************************************************)
(* The connection bootstrap (api.py 81-91, client.py 192-211,              *)
(* utils.py 39-49).  boot holds the position in the loop, the retries      *)
(* counter, and what the loop has done so far: the connection checks made, *)
(* the sleeps taken, the errors logged, and how the last check ended.      *)
(***************************************************************************)
max_retries == 10

\* how es.info() can end: it raises (or its answer lacks the version), it
\* returns an empty version number, it returns a version number
InfoOutcomes == {"raises", "empty version", "version"}

\* assert_elasticsearch_connection: True only with a version number
assert_elasticsearch_connection(outcome) == outcome = "version"

\* the loop gives up after one more failure
GiveUpLate(retries) == ~(retries <= max_retries)

\* the else branch of `if retries < max_retries`
GiveUp(retries) == ~(retries < max_retries)

BootInit ==
    /\ boot = [pc |-> "check", retries |-> 0, checks |-> 0, sleeps |-> 0,
               errors |-> 0, last |-> "none"]
    /\ impl \in {"api", "client"}
    /\ endpoint = "none" /\ esres = NoneV
    /\ docs = <<>> /\ maxpage = 1 /\ req = NoneV /\ resume = NoneV
    /\ resp = NoneV /\ pages = <<>> /\ pc = "boot"
    /\ lists = <<>> /\ thr = <<>>
    /\ CodecIdle

BootUnchanged ==
    /\ UNCHANGED <<docs, impl, maxpage, req, resume, resp, pages, pc>>
    /\ UNCHANGED codecVars
    /\ UNCHANGED apiVars
    /\ UNCHANGED concVars

\* the loop condition, and after a failed check retries += 1 and the test
\* of retries against max_retries
CheckConnection ==
    /\ boot.pc = "check"
    /\ \E outcome \in InfoOutcomes :
         LET connected == assert_elasticsearch_connection(outcome)
             retries == boot.retries + 1
         IN  boot' = [boot EXCEPT
                        !.checks = @ + 1,
                        !.last = outcome,
                        !.errors = IF outcome = "raises" THEN @ + 1 ELSE @,
                        !.retries = IF connected THEN @ ELSE retries,
                        !.pc = IF connected THEN "ready"
                               ELSE IF GiveUp(retries) THEN "raised"
                               ELSE "sleep"]
    /\ BootUnchanged

\* time.sleep(5) and the log line; then the loop condition again
SleepAndRetry ==
    /\ boot.pc = "sleep"
    /\ boot' = [boot EXCEPT !.sleeps = @ + 1, !.pc = "check"]
    /\ BootUnchanged

BootNext == CheckConnection \/ SleepAndRetry

BootSpec == BootInit /\ [][BootNext]_vars

\* es.info() returns or raises, and time.sleep(5) returns
FairBootSpec == BootSpec /\ WF_boot(BootNext)

(***************************************************************************)
(* format_match taken alone, on any hit the backend may return for a       *)
(* listing: the stored publication date is a day, a day and time, or null  *)
(* (create_fixtures.py stores a null in every 1000th document).            *)
(***************************************************************************)
StoredPublicationDates ==
    {NoneV}
      \cup {Some(IsoDate((d - 1) * 86400)) : d \in 1..MaxDate}
      \cup {Some(IsoDateTime((d - 1) * 86400 + t)) : d \in 1..MaxDate, t \in {0, 3661}}

\* the hit of document i with publication date pd, under the source
\* projection of a query that is or is not expanded
HitOf(i, pd, expanded) ==
    [id |-> i,
     _source |-> [f \in {cs_basic_query(expanded)._source[k] :
                           k \in 1..Len(cs_basic_query(expanded)._source)} |->
                    IF f = "publication_date" THEN pd ELSE DocField(<<>>, i, f)]]

FormatInit ==
    /\ impl \in {"api", "client"}
    /\ req \in {[hit |-> HitOf(i, pd, e), expanded |-> e] :
                   i \in 1..MaxDocs, pd \in StoredPublicationDates, e \in BOOLEAN}
    /\ docs = <<>> /\ maxpage = 1 /\ resume = NoneV /\ resp = NoneV
    /\ pages = <<>> /\ pc = "format"
    /\ endpoint = "none" /\ esres = NoneV
    /\ lists = <<>> /\ thr = <<>> /\ boot = NoneV
    /\ CodecIdle

FormatMatch ==
    /\ pc = "format"
    /\ resp' = Some(format_match(req.hit, req.expanded))
    /\ pc' = "formatted"
    /\ UNCHANGED <<docs, impl, maxpage, req, resume, pages>>
    /\ UNCHANGED codecVars
    /\ UNCHANGED apiVars
    /\ UNCHANGED <<concVars, boot>>

FormatSpec == FormatInit /\ [][FormatMatch]_vars

(***************************************************************************)
(* Properties.                                                             *)
(***************************************************************************)
RECURSIVE Flatten(_)
Flatten(ss) == IF ss = <<>> THEN <<>> ELSE Head(ss) \o Flatten(Tail(ss))

Ended == pc \in {"done", "failed"}

\* the page size a request asks for: its page_size, maxpage when it has none
RequestedPageSize == IF req.page_size = NoneV THEN maxpage ELSE req.page_size[1]

\* the sort the session asked for, the defaults applied
ChosenField == IF req.sort_field = NoneV THEN "publication_date" ELSE req.sort_field[1]
ChosenOrder == IF req.sort_order = NoneV THEN "desc" ELSE req.sort_order[1]

\* every story the client has received so far, in the order received: the
\* collected pages and the page of a response not yet collected
Received ==
    Flatten(pages) \o (IF pc = "response" /\ resp[1].status = "200"
                       THEN resp[1].matches ELSE <<>>)

\* C1: decoding the token produced by encoding a string returns the string,
\* for every string encode accepts
CodecRoundTrip == cpc = "decoded" => cout[1] = Ok(cstr)

\* a string with a non-ASCII character whose token has padding and a '_'
\* has been through encode and decode
CodecRoundTripWitness ==
    /\ cpc = "decoded"
    /\ cout[1].ok
    /\ \E i \in 1..Len(cstr) : cstr[i] > 127
    /\ \E j \in 1..Len(ctok[1].val) : ctok[1].val[j] = ChTilde
    /\ \E j \in 1..Len(ctok[1].val) : ctok[1].val[j] = ChUnderscore

\* C2: a listing response carries a resume token if and only if the number
\* of hits the backend returned equals the requested page size (maxpage
\* when the request has none)
CursorIffFullPage ==
    (pc = "response" /\ resp[1].query # NoneV)
        => ((resp[1].token # NoneV) <=> (Len(resp[1].hits) = RequestedPageSize))

\* a request without page_size got a full page of the default size, with
\* its token
CursorIffFullPageWitness ==
    /\ pc = "response"
    /\ req.page_size = NoneV
    /\ maxpage = 2
    /\ resp[1].token # NoneV
    /\ Len(resp[1].hits) = 2

\* C3: with N >= p matching documents, a listing call with page size p and
\* no resume token returns exactly p hits and a non-empty resume token
FullFirstPage ==
    (/\ pc = "response"
     /\ resume = NoneV
     /\ req.page_size # NoneV
     /\ Len(docs) >= req.page_size[1])
        => /\ resp[1].status = "200"
           /\ Len(resp[1].matches) = req.page_size[1]
           /\ resp[1].token # NoneV
           /\ resp[1].token[1] # <<>>

\* the first page of size 2 of a dataset of 3
FullFirstPageWitness ==
    /\ pc = "response"
    /\ resume = NoneV
    /\ req.page_size = Some(2)
    /\ Len(docs) = 3
    /\ Len(resp[1].matches) = 2

\* C4: with N < p matching documents, a listing call with page size p
\* returns N hits and no resume token (for N = 0 as NotFound)
ShortFirstPage ==
    (/\ pc = "response"
     /\ resume = NoneV
     /\ req.page_size # NoneV
     /\ Len(docs) < req.page_size[1])
        => /\ resp[1].token = NoneV
           /\ Len(resp[1].matches) = Len(docs)
           /\ (Len(docs) > 0 => resp[1].status = "200")

\* a dataset of 1 answered a request for pages of 2
ShortFirstPageWitness ==
    /\ pc = "response"
    /\ resume = NoneV
    /\ req.page_size = Some(2)
    /\ Len(docs) = 1
    /\ resp[1].status = "200"

\* C5: when the session has ended, every matching document has appeared on
\* some page
PagingExhaustive ==
    Ended => \A i \in 1..Len(docs) :
                \E k \in 1..Len(Received) : Received[k].id = i

\* C6: no document appears twice among the stories received, on one page or
\* on two
NoDuplicates ==
    \A i, j \in 1..Len(Received) : i # j => Received[i].id # Received[j].id

\* two pages have been collected and a third has arrived
NoDuplicatesWitness ==
    /\ pc = "response"
    /\ Len(pages) = 2
    /\ resp[1].status = "200"

\* C7: the stories received are sorted by the chosen field in the chosen
\* direction, within and across pages
ReceivedSorted ==
    \A k \in 1..(Len(Received) - 1) :
        LET a == FieldValue(docs, Received[k].id, ChosenField)
            b == FieldValue(docs, Received[k + 1].id, ChosenField)
        IN  IF ChosenOrder = "asc" THEN a <= b ELSE a >= b

\* two pages in ascending order of indexed_date
ReceivedSortedWitness ==
    /\ pc = "done"
    /\ Len(pages) = 2
    /\ req.sort_order = Some("asc")
    /\ req.sort_field = Some("indexed_date")
    /\ Len(Received) = 3

\* C8: the session ends, and with a response that carries no resume token
\* and (for api._search_result) fewer hits than the requested page size
PagingTerminates ==
    <>(/\ Ended
       /\ resp[1].token = NoneV
       /\ (impl = "api" => Len(resp[1].hits) < RequestedPageSize))

\* a session of two requests has ended on a short page
PagingTerminatesWitness ==
    /\ pc = "done"
    /\ impl = "api"
    /\ Len(pages) = 2
    /\ Len(pages[2]) < RequestedPageSize

\* C9: with at least one matching document, every request of the session
\* succeeds with a non-empty page
EveryRequestSucceeds ==
    (pc = "response" /\ Len(docs) >= 1)
        => (resp[1].status = "200" /\ resp[1].matches # <<>>)

\* C10: the resume token of a response decodes to the string form of the
\* sort value of the last hit of the page
CursorIsLastSortKey ==
    (pc = "response" /\ resp[1].token # NoneV)
        => decode(resp[1].token[1])
             = Ok(PyStr(resp[1].hits[Len(resp[1].hits)].sort[1]))

\* the token of a page of two hits with different sort values
CursorIsLastSortKeyWitness ==
    /\ pc = "response"
    /\ resp[1].token # NoneV
    /\ Len(resp[1].hits) = 2
    /\ resp[1].hits[1].sort # resp[1].hits[2].sort

(***************************************************************************)
(* Properties of a single request.                                         *)
(***************************************************************************)
Answered(e) == pc = "answered" /\ endpoint = e

\* the request's sort_order, sort_field or page_size makes its validator
\* raise (api.py 277-300)
SortOrderRejected ==
    TruthyStr(req.sort_order) /\ req.sort_order[1] \notin VALID_SORT_ORDERS
SortFieldRejected ==
    TruthyStr(req.sort_field) /\ req.sort_field[1] \notin VALID_SORT_FIELDS
PageSizeRejected == TruthyInt(req.page_size) /\ req.page_size[1] < 1

\* the request's resume token is one decode raises on
CursorUndecodable == TruthyTok(resume) /\ ~decode(resume[1]).ok

\* C11: a listing request that gives a sort_order outside {asc, desc} or a
\* sort_field outside {publication_date, indexed_date} is answered 400,
\* whatever the value
InvalidSortRejected ==
    (/\ Answered("result")
     /\ \/ (req.sort_order # NoneV /\ req.sort_order[1] \notin VALID_SORT_ORDERS)
        \/ (req.sort_field # NoneV /\ req.sort_field[1] \notin VALID_SORT_FIELDS))
        => resp[1].status = "400"

\* C12: a listing request that gives a page_size of zero or less is
\* answered 400
NonPositivePageSizeRejected ==
    (/\ Answered("result")
     /\ req.page_size # NoneV
     /\ req.page_size[1] <= 0)
        => resp[1].status = "400"

\* C13 as stated: a listing request makes no backend search call when the
\* validation of sort field, sort order or page size fails and exactly one
\* otherwise
OneCallUnlessInvalid ==
    Answered("result")
        => resp[1].calls = IF SortFieldRejected \/ SortOrderRejected \/ PageSizeRejected
                           THEN 0 ELSE 1

\* C13, amended: a listing request makes no backend search call when the
\* validation of sort field, sort order or page size fails or the resume
\* token cannot be decoded, and exactly one otherwise, also when the
\* backend fails
OneCallUnlessRejected ==
    Answered("result")
        => resp[1].calls = IF \/ SortFieldRejected
                              \/ SortOrderRejected
                              \/ PageSizeRejected
                              \/ CursorUndecodable
                           THEN 0 ELSE 1

\* the backend failed on a request that passed validation: one call, no
\* second attempt
OneCallUnlessRejectedWitness ==
    /\ Answered("result")
    /\ ~(SortFieldRejected \/ SortOrderRejected \/ PageSizeRejected)
    /\ resp[1].status = "500"
    /\ resp[1].calls = 1

\* C14: when the backend returns zero hits the overview, the listing and
\* the terms endpoint answer 404, and no successful answer is empty
ZeroHitsNotFound ==
    /\ (Answered("overview") /\ ES_aggregate(docs, esres[1], cs_overview_query).hits = <<>>)
          => resp[1].status = "404"
    /\ (Answered("terms") /\ ES_aggregate(docs, esres[1], cs_terms_query).hits = <<>>)
          => resp[1].status = "404"
    /\ (/\ Answered("result")
        /\ resp[1].calls = 1
        /\ ES_search(docs, resp[1].query[1]) = Ok(<<>>))
          => resp[1].status = "404"
    /\ (pc = "answered" /\ resp[1].status = "200")
          => IF endpoint = "terms" THEN DOMAIN resp[1].counts # {}
             ELSE resp[1].matches # <<>>

\* an overview query that matches nothing, though the backend reports
\* buckets, was answered 404
ZeroHitsNotFoundWitness ==
    /\ Answered("overview")
    /\ docs = <<>>
    /\ esres[1].tld # <<>>
    /\ resp[1].status = "404"

\* C15: the terms operation answers 404 when the backend returns zero hits
\* or the term aggregation has zero buckets, and otherwise the mapping from
\* key to count of exactly the aggregation's buckets
TermsNotFoundOrCounts ==
    Answered("terms")
        => LET buckets == esres[1].terms IN
           IF docs = <<>> \/ buckets = <<>>
           THEN resp[1].status = "404"
           ELSE /\ resp[1].status = "200"
                /\ DOMAIN resp[1].counts = {buckets[i].key : i \in 1..Len(buckets)}
                /\ \A i \in 1..Len(buckets) :
                      resp[1].counts[buckets[i].key] = buckets[i].doc_count

\* a terms query with two buckets of different counts was answered
TermsNotFoundOrCountsWitness ==
    /\ Answered("terms")
    /\ resp[1].status = "200"
    /\ Len(esres[1].terms) = 2
    /\ esres[1].terms[1].doc_count # esres[1].terms[2].doc_count

\* C16 as stated: every successful overview reports the larger of the
\* backend's total and the sum of the TLD bucket counts
OverviewTotalIsMaxWithTldSum ==
    (Answered("overview") /\ resp[1].status = "200")
        => resp[1].total = PyMax(esres[1].total, SumDocCount(esres[1].tld))

\* C16, amended: a successful overview of api._search_overview reports the
\* larger of the backend's total and the sum of the TLD bucket counts, one
\* of EsClientWrapper.search_overview the larger of the backend's total and
\* the sum of the top-domain bucket counts
OverviewTotalIsMax ==
    (Answered("overview") /\ resp[1].status = "200")
        => resp[1].total =
             PyMax(esres[1].total,
                   SumDocCount(IF impl = "api" THEN esres[1].tld
                               ELSE esres[1].canonical_domain))

\* an overview of api._search_overview whose TLD buckets sum to more than
\* the backend's total
OverviewTotalIsMaxWitness ==
    /\ Answered("overview")
    /\ impl = "api"
    /\ resp[1].status = "200"
    /\ Len(esres[1].tld) = 2
    /\ resp[1].total > esres[1].total

\* C17: a listing request whose resume token cannot be decoded is answered
\* 400, without a backend call
BadCursorIsValidationError ==
    (Answered("result") /\ CursorUndecodable)
        => (resp[1].status = "400" /\ resp[1].calls = 0)

\* the URL-safe base64 alphabet: A-Z, a-z, 0-9, '-' and '_'
UrlSafeAlphabet == (65..90) \cup (97..122) \cup (48..57) \cup {45, 95}

\* C18: decode fails on every input that has a character outside the
\* URL-safe base64 alphabet and '~'
DecodeRejectsForeignChars ==
    (/\ cpc = "decoded token"
     /\ \E i \in 1..Len(cstr) : cstr[i] \notin UrlSafeAlphabet \cup {126})
        => ~cout[1].ok

\* C19: a token produced by encode consists of characters of the URL-safe
\* base64 alphabet and '~' only; it has no '+', '/' or '='
TokenIsUrlSafe ==
    (cpc \in {"encoded", "decoded"})
        => \A j \in 1..Len(ctok[1].val) :
              ctok[1].val[j] \in UrlSafeAlphabet \cup {126}

\* a token with a '-' and with padding has been produced
TokenIsUrlSafeWitness ==
    /\ cpc = "encoded"
    /\ \E j \in 1..Len(ctok[1].val) : ctok[1].val[j] = 45
    /\ \E j \in 1..Len(ctok[1].val) : ctok[1].val[j] = 126

\* C20: every hit of a listing page has the keys text_content and
\* text_extraction if and only if the request is expanded, and the source
\* projection sent to the backend names them if and only if it is
ExpandedIffFullText ==
    (pc = "response" /\ resp[1].status = "200")
        => /\ \A k \in 1..Len(resp[1].matches) :
                /\ ("text_content" \in DOMAIN resp[1].matches[k]) <=> req.expanded
                /\ ("text_extraction" \in DOMAIN resp[1].matches[k]) <=> req.expanded
           /\ LET projection == {resp[1].query[1]._source[k] :
                                   k \in 1..Len(resp[1].query[1]._source)}
              IN  /\ ("text_content" \in projection) <=> req.expanded
                  /\ ("text_extraction" \in projection) <=> req.expanded

\* a page of two hits of a request that is not expanded, and the page
\* after it
ExpandedIffFullTextWitness ==
    /\ pc = "response"
    /\ resp[1].status = "200"
    /\ ~req.expanded
    /\ Len(pages) = 1
    /\ Len(pages[1]) = 2
    /\ "text_content" \notin DOMAIN pages[1][1]


(***************************************************************************)
(* Properties of the formatting of a hit.                                  *)
(***************************************************************************)
\* C21 as stated: the publication_date of every formatted hit is a string
\* of exactly 10 characters
PublicationDateIsDateOnly ==
    pc = "formatted"
        => /\ resp[1].publication_date # NoneV
           /\ Len(resp[1].publication_date[1]) = 10

\* C21, amended: the publication_date of a formatted hit is null when the
\* backend value is null, and otherwise the first 10 characters of the
\* backend value, a date-only string yyyy-mm-dd of exactly 10 characters
PublicationDateIsDateOrNull ==
    pc = "formatted"
        => LET stored == req.hit._source["publication_date"]
               shown == resp[1].publication_date
           IN  IF stored = NoneV THEN shown = NoneV
               ELSE /\ shown # NoneV
                    /\ Len(shown[1]) = 10
                    /\ shown[1] = SubSeq(stored[1], 1, 10)
                    /\ shown[1][5] = 45 /\ shown[1][8] = 45
                    /\ \A k \in {1, 2, 3, 4, 6, 7, 9, 10} : IsDigit(shown[1][k])

\* a hit whose stored publication date has a time of day has been formatted
PublicationDateIsDateOrNullWitness ==
    /\ pc = "formatted"
    /\ req.hit._source["publication_date"] # NoneV
    /\ Len(req.hit._source["publication_date"][1]) = 19
    /\ resp[1].publication_date # NoneV


(***************************************************************************)
(* Properties of concurrent requests.                                      *)
(***************************************************************************)
\* what the request of thread t produces when it runs alone
AloneResponse(t) ==
    LET r == thr[t].req IN
    IF impl = "api"
    THEN _search_result(docs, maxpage, NoneV, r.expanded, r.sort_field,
                        r.sort_order, r.page_size)
    ELSE search_result(docs, maxpage, NoneV, r.expanded, r.sort_field,
                       r.sort_order, r.page_size)

\* C22: under any interleaving of concurrent listing requests, the body a
\* request sends to the backend and its response are those of the same
\* request run alone; the source projection of a request that is not
\* expanded never has the fields of an expanded one
RequestsIndependent ==
    \A t \in DOMAIN thr :
        thr[t].pc = "done"
            => /\ thr[t].resp[1] = AloneResponse(t)
               /\ (thr[t].resp[1].query # NoneV /\ ~thr[t].req.expanded)
                     => \A k \in 1..Len(thr[t].resp[1].query[1]._source) :
                           thr[t].resp[1].query[1]._source[k]
                             \notin {"text_content", "text_extraction"}

\* a request that is not expanded has been answered after an expanded
\* request built its query and before that one called the backend
RequestsIndependentWitness ==
    /\ pc = "threads"
    /\ thr[1].pc = "done" /\ ~thr[1].req.expanded /\ thr[1].resp[1].status = "200"
    /\ thr[2].pc = "search" /\ thr[2].req.expanded


(***************************************************************************)
(* Properties of the paged query.                                          *)
(***************************************************************************)
\* the sort value the backend attaches to the last story of a page
LastSortKey(page) ==
    FormatBasicDateTime(FieldValue(docs, page[Len(page)].id, ChosenField))

\* C24: the body sent to the backend has a search_after boundary if and
\* only if the request carried a non-empty resume cursor; the boundary is
\* the one-element list of the decoded cursor, and when the cursor came
\* from a page it is the sort value of the last hit of that page
BoundaryIsDecodedCursor ==
    (pc = "response" /\ resp[1].query # NoneV)
        => LET after == resp[1].query[1].search_after IN
           /\ (after # NoneV) <=> (resume # NoneV /\ resume[1] # <<>>)
           /\ after # NoneV
                => /\ decode(resume[1]).ok
                   /\ after[1] = <<decode(resume[1]).val>>
                   /\ pages # <<>> => after[1][1] = LastSortKey(pages[Len(pages)])

\* the second request of a session has been answered: its body carries the
\* boundary taken from the first page
BoundaryIsDecodedCursorWitness ==
    /\ pc = "response"
    /\ Len(pages) = 1
    /\ resp[1].status = "200"
    /\ resp[1].query[1].search_after # NoneV


\* C25: the body api.py sends for a listing request sorts by
\* publication_date when the request has no sort_field, in descending order
\* when it has no sort_order, and asks for maxpage hits when it has no
\* page_size; a valid sort_field, sort_order or page_size of the request is
\* in the body as it came
DefaultsOrRequestedValues ==
    (pc = "answered" /\ endpoint = "result" /\ impl = "api" /\ resp[1].query # NoneV)
        => LET body == resp[1].query[1] IN
           /\ req.sort_field = NoneV => body.sort_field = "publication_date"
           /\ req.sort_order = NoneV => body.sort_order = "desc"
           /\ req.page_size = NoneV => body.size = maxpage
           /\ (req.sort_field # NoneV /\ req.sort_field[1] \in VALID_SORT_FIELDS)
                 => body.sort_field = req.sort_field[1]
           /\ (req.sort_order # NoneV /\ req.sort_order[1] \in VALID_SORT_ORDERS)
                 => body.sort_order = req.sort_order[1]
           /\ (req.page_size # NoneV /\ req.page_size[1] >= 1)
                 => body.size = req.page_size[1]

\* a request that names none of the three, under the maxpage of an empty
\* configuration
DefaultsOrRequestedValuesWitness ==
    /\ pc = "answered" /\ endpoint = "result" /\ impl = "api"
    /\ req.sort_field = NoneV /\ req.sort_order = NoneV /\ req.page_size = NoneV
    /\ maxpage = 1000
    /\ resp[1].query # NoneV
    /\ resp[1].query[1].size = 1000
    /\ resp[1].query[1].sort_order = "desc"


\* C26: the page of a successful listing response has one story per hit of
\* the backend's answer, in the order of the hits: it is as long as the hit
\* list and its i-th story is format_match of the i-th hit
PageIsFormattedHits ==
    (pc = "response" /\ resp[1].status = "200")
        => /\ Len(resp[1].matches) = Len(resp[1].hits)
           /\ \A i \in 1..Len(resp[1].hits) :
                 resp[1].matches[i] = format_match(resp[1].hits[i], req.expanded)

\* a page of two hits with different sort values
PageIsFormattedHitsWitness ==
    /\ pc = "response"
    /\ resp[1].status = "200"
    /\ Len(resp[1].hits) = 2
    /\ resp[1].hits[1].sort # resp[1].hits[2].sort
    /\ resp[1].matches[1].id = resp[1].hits[1].id
    /\ resp[1].matches[2].id = resp[1].hits[2].id


(***************************************************************************)
(* Properties of the article lookup.                                       *)
(***************************************************************************)
\* C27: an article lookup ends in exactly one of three ways: with 500 when
\* the backend call raised or its answer had not the shape of a search
\* result, with 404 when a well-formed answer had no hit, and otherwise
\* with the first hit formatted with the expanded fields; a failure of the
\* backend is never answered with 404 or with an article
ArticleOutcomes ==
    pc = "article answered"
        => IF esres[1] # "well-formed"
           THEN resp[1].status = "500" /\ resp[1].article = NoneV
           ELSE IF req.id \notin 1..Len(docs)
           THEN resp[1].status = "404" /\ resp[1].article = NoneV
           ELSE /\ resp[1].status = "200"
                /\ resp[1].article # NoneV
                /\ resp[1].article[1].id = req.id
                /\ {"text_content", "text_extraction"} \subseteq DOMAIN resp[1].article[1]
                /\ resp[1].article[1].text_content = DocField(docs, req.id, "text_content")

\* the backend answered the lookup of a stored article with an object that
\* has no "hits"
ArticleOutcomesWitness ==
    /\ pc = "article answered"
    /\ esres[1] = "no hits"
    /\ req.id \in 1..Len(docs)
    /\ resp[1].status = "500"


(***************************************************************************)
(* Further properties of a listing call.                                   *)
(***************************************************************************)
\* C28: in every listing call that reaches the backend, the size in the
\* body sent is the page size the number of hits is compared with to decide
\* on a resume token (page_size, maxpage when the request has none), in
\* api._search_result and in EsClientWrapper.search_result
SentSizeIsComparedSize ==
    (pc = "response" /\ resp[1].query # NoneV)
        => resp[1].query[1].size = IntOr(req.page_size, maxpage)


(***************************************************************************)
(* Properties of the exposed collections.                                  *)
(***************************************************************************)
\* C29: every name get_allowed_collections returns (an index, an alias or
\* the wildcard) starts with the configured index-name prefix
OnlyPrefixedExposed ==
    pc = "collections listed"
        => \A k \in 1..Len(resp[1]) : StartsWith(resp[1][k], req.prefix)


(***************************************************************************)
(* Properties of the connection bootstrap.                                 *)
(***************************************************************************)
\* C30: the bootstrap always ends, connected or with RuntimeError; it goes
\* on as soon as a check succeeds; when every check fails it raises after
\* exactly 10 checks with a sleep between consecutive checks (9 sleeps);
\* there is never an 11th check
BootstrapTerminates ==
    /\ <>(boot.pc \in {"ready", "raised"})
    /\ [](boot.checks <= 10)
    /\ [](boot.last = "version" => boot.pc = "ready")
    /\ [](boot.pc = "ready"
            => /\ boot.last = "version"
               /\ boot.checks = boot.retries + 1
               /\ boot.sleeps = boot.retries)
    /\ [](boot.pc = "raised"
            => /\ boot.last # "version"
               /\ boot.checks = 10
               /\ boot.sleeps = 9)

\* ten checks have failed and the bootstrap has raised
BootstrapTerminatesWitness ==
    /\ boot.pc = "raised"
    /\ boot.checks = 10
    /\ boot.errors = 5

=============================================================================
